---- MODULE Spec2Model ----
(***************************************************************************)
(* Model of the MPT circuit helpers (mpt_circuit/helpers.rs) and of the    *)
(* extension-node-modification gadget (mpt_circuit/mod_extension.rs).      *)
(*                                                                         *)
(* A constraint system has no control flow of its own: its "state" is the  *)
(* witness (the value of every cell the constraints read) and the fixed    *)
(* tables.  Each helper is modelled as the code computes it, over a prime  *)
(* field F_P; each specification below draws the inputs of one component   *)
(* from bounded sets and applies the component's operations to them.       *)
(***************************************************************************)
EXTENDS Integers, Sequences, FiniteSets, TLC

VARIABLES
    cr,     \* compute_rlc: the loop's locals and its arguments
    lk,     \* key_len_lookup / mult_diff_lookup: arguments, queried cells, outcome
    bl,     \* get_branch_len: the queried row and the returned expression's value
    gb,     \* get_bool_constraint: the arguments' values and the returned value
    wit,    \* ModExtensionGadget: RLP items, KeyData[2], ParentData[2]
    cells,  \* ModExtensionGadget: is_key_part_odd[2] and the LtGadget cells
    pc,     \* ModExtensionGadget: position of assign ("init", "assigned", "aborted")
    op,     \* ModExtensionGadget: the last operation applied to the witness
    pre     \* ModExtensionGadget: what held of the witness before its last edit

vars == <<cr, lk, bl, gb, wit, cells, pc, op, pre>>

----------------------------------------------------------------------------
(* The field F.  Every Expression<F> evaluates to an element of 0..P-1.    *)

\* The modulus of the field the expressions are evaluated in (a prime).
P == 1048573

\* Products are split so that no intermediate value leaves 32 bits.
Mul(a, b) == ((((a \div 1024) * b) % P) * 1024 + (a % 1024) * b) % P

Add(a, b) == (a + b) % P

Sub(a, b) == (a - b + P) % P

\* F::from(n) for a (possibly negative) small integer n.
F(n) == ((n % P) + P) % P

RECURSIVE Pow(_, _)
Pow(b, e) ==
    IF e = 0 THEN 1
    ELSE LET h == Pow(b, e \div 2)
         IN IF e % 2 = 0 THEN Mul(h, h) ELSE Mul(Mul(h, h), b)

\* The challenge the key RLCs are taken with (cb.key_r, the table's r).
key_r == 7

\* The challenge node RLCs are taken with (cb.keccak_r).
keccak_r == 11

HASH_WIDTH == 32

POWER_OF_RANDOMNESS_LEN == 32

----------------------------------------------------------------------------
(* helpers.rs: compute_rlc                                                 *)

\* The lengths of the advice vectors compute_rlc is applied to.
MaxLen == 2 * POWER_OF_RANDOMNESS_LEN + 1

RlcLens == {1, POWER_OF_RANDOMNESS_LEN, POWER_OF_RANDOMNESS_LEN + 1,
            2 * POWER_OF_RANDOMNESS_LEN, MaxLen}

\* The positions at which a one-hot advice vector carries its value.
HotPositions == {0, POWER_OF_RANDOMNESS_LEN - 1, POWER_OF_RANDOMNESS_LEN,
                 POWER_OF_RANDOMNESS_LEN + 1, 2 * POWER_OF_RANDOMNESS_LEN - 1,
                 2 * POWER_OF_RANDOMNESS_LEN}

\* advices: a vector of n queried cells; one-hot vectors and a dense one.
Advices(n) ==
    { [j \in 1..n |-> IF j = h + 1 THEN v ELSE 0] : h \in HotPositions, v \in {1, 255} }
    \cup { [j \in 1..n |-> (j % 3) + 1] }

\* power_of_randomness[k], a table of POWER_OF_RANDOMNESS_LEN consecutive powers
\* of r handed in by the caller; `first` is the exponent of its entry 0.
power_of_randomness(first, k) == Pow(key_r, first + k)

ComputeRlcInit ==
    cr \in [ advices : UNION { Advices(n) : n \in RlcLens },
             rind0 : {0, 1},
             mult : {1, 3},
             first : {0, 1},
             k : {0},
             rind : {0},
             r_wrapped : {FALSE},
             rlc : {0},
             pc : {"entry"} ]

\* `let mut r_wrapped = false; let mut rlc = 0` with rind the argument.
ComputeRlcEnter ==
    /\ cr.pc = "entry"
    /\ cr' = [cr EXCEPT !.rind = cr.rind0, !.r_wrapped = FALSE, !.rlc = 0,
                        !.k = 0, !.pc = "loop"]

\* The term one iteration adds to rlc.
RlcTerm(s, first, rind, r_wrapped, mult) ==
    IF ~r_wrapped
    THEN Mul(Mul(s, power_of_randomness(first, rind)), mult)
    ELSE Mul(Mul(Mul(s, power_of_randomness(first, rind)),
                 power_of_randomness(first, POWER_OF_RANDOMNESS_LEN - 1)), mult)

\* One iteration of `for col in advices.iter()`.
ComputeRlcIter ==
    /\ cr.pc = "loop"
    /\ cr.k < Len(cr.advices)
    /\ LET s == cr.advices[cr.k + 1]
       IN cr' = [cr EXCEPT
                   !.rlc = Add(cr.rlc, RlcTerm(s, cr.first, cr.rind, cr.r_wrapped, cr.mult)),
                   !.rind = IF cr.rind = POWER_OF_RANDOMNESS_LEN - 1 THEN 0 ELSE cr.rind + 1,
                   !.r_wrapped = IF cr.rind = POWER_OF_RANDOMNESS_LEN - 1 THEN TRUE
                                 ELSE cr.r_wrapped,
                   !.k = cr.k + 1]

\* The loop is exhausted: rlc is returned.
ComputeRlcReturn ==
    /\ cr.pc = "loop"
    /\ cr.k = Len(cr.advices)
    /\ cr' = [cr EXCEPT !.pc = "done"]

ComputeRlcIdle == [advices |-> <<>>, rind0 |-> 0, mult |-> 1, first |-> 0, k |-> 0,
                   rind |-> 0, r_wrapped |-> FALSE, rlc |-> 0, pc |-> "idle"]

----------------------------------------------------------------------------
(* The fixed lookup table (rows <<tag, a, b>>) the helpers query.          *)

\* 33 is the maximal key length; the range rows are 0 .. 33 * 255 - 1.
MaxKeyLen == 33

RangeKeyLenRows == MaxKeyLen * 255

\* The RMult rows are (n, r^n) for n in 0 .. 2 * HASH_WIDTH.
RMultRows == 2 * HASH_WIDTH + 1

\* (tag, a) is columns 0 and 1 of some row of the fixed table.
FixedTable2(tag, a) ==
    CASE tag = "RangeKeyLen256" -> a \in 0..(RangeKeyLenRows - 1)
      [] tag = "RMult"          -> a \in 0..(RMultRows - 1)
      [] tag = "ExtOddKey"      -> a \in 0..255
      [] OTHER                  -> FALSE

\* (tag, a, b) is a row of the fixed table.
FixedTable3(tag, a, b) ==
    CASE tag = "RangeKeyLen256" -> a \in 0..(RangeKeyLenRows - 1) /\ b = 0
      [] tag = "RMult"          -> a \in 0..(RMultRows - 1) /\ b = Pow(key_r, a)
      [] tag = "ExtOddKey"      -> \/ a = 0 /\ b = 0
                                   \/ a \in 16..31 /\ b = 1
      [] OTHER                  -> FALSE

----------------------------------------------------------------------------
(* helpers.rs: key_len_lookup and mult_diff_lookup                         *)

\* The largest column index / addition the lookups are instantiated with.
MaxInd == 8

MaxAddition == 2

\* key_len_lookup without the subtraction of len_offset from the length cell.
KeyLenLookupInputNoOffset(q_enable, ind, key_len_cell, s, len_offset) ==
    LET key_len_rem == Sub(key_len_cell, F(ind))
    IN <<"RangeKeyLen256", Mul(Mul(q_enable, s), key_len_rem)>>

\* The lookup argument of key_len_lookup: (tag, q_enable * s * key_len_rem).
KeyLenLookupInput(q_enable, ind, key_len_cell, s, len_offset) ==
    LET offset      == F(len_offset)
        key_len     == Sub(key_len_cell, offset)
        key_len_rem == Sub(key_len, F(ind))
    IN <<"RangeKeyLen256", Mul(Mul(q_enable, s), key_len_rem)>>

\* key_len_lookup is satisfied on a row iff its input is a row of the table.
key_len_lookup(q_enable, ind, key_len_cell, s, len_offset) ==
    LET in == KeyLenLookupInput(q_enable, ind, key_len_cell, s, len_offset)
    IN FixedTable2(in[1], in[2])

\* mult_diff_lookup without add_expr in the exponent column.
MultDiffLookupInputNoAddition(q_enable, addition, key_len_cell, mult_diff, key_len_offset) ==
    LET offset   == F(key_len_offset)
        key_len  == Sub(key_len_cell, offset)
    IN <<"RMult", Mul(q_enable, key_len), Mul(q_enable, mult_diff)>>

\* The lookup argument of mult_diff_lookup.
MultDiffLookupInput(q_enable, addition, key_len_cell, mult_diff, key_len_offset) ==
    LET offset   == F(key_len_offset)
        key_len  == Sub(key_len_cell, offset)
        add_expr == F(addition)
    IN <<"RMult", Mul(q_enable, Add(key_len, add_expr)), Mul(q_enable, mult_diff)>>

mult_diff_lookup(q_enable, addition, key_len_cell, mult_diff, key_len_offset) ==
    LET in == MultDiffLookupInput(q_enable, addition, key_len_cell, mult_diff, key_len_offset)
    IN FixedTable3(in[1], in[2], in[3])

LookupOffsets == {0, 128}

LookupInit ==
    \E off \in LookupOffsets, kl \in 0..MaxKeyLen :
        \/ lk \in [ fn : {"key_len"}, q_enable : {0, 1}, ind : 1..MaxInd,
                     offset : {off}, key_len_cell : {off + kl},
                     s : {0, 1, 3, 255}, mult_diff : {0}, out : {"none"} ]
        \/ lk \in [ fn : {"mult_diff"}, q_enable : {0, 1}, ind : 0..MaxAddition,
                     offset : {off}, key_len_cell : {off + kl}, s : {0},
                     mult_diff : {0, 1, key_r, Pow(key_r, 2), Pow(key_r, 7)},
                     out : {"none"} ]

\* key_len_lookup is instantiated for the columns ind >= 1 after the length byte
\* (lk.ind is its `ind`).
KeyLenLookup ==
    /\ lk.fn = "key_len" /\ lk.out = "none"
    /\ lk' = [lk EXCEPT !.out =
                IF key_len_lookup(lk.q_enable, lk.ind, lk.key_len_cell, lk.s, lk.offset)
                THEN "sat" ELSE "unsat"]

\* mult_diff_lookup is instantiated with an addition in 0 .. MaxAddition
\* (lk.ind is its `addition`).
MultDiffLookup ==
    /\ lk.fn = "mult_diff" /\ lk.out = "none"
    /\ lk' = [lk EXCEPT !.out =
                IF mult_diff_lookup(lk.q_enable, lk.ind, lk.key_len_cell, lk.mult_diff,
                                    lk.offset)
                THEN "sat" ELSE "unsat"]

LookupIdle == [fn |-> "idle", q_enable |-> 0, ind |-> 0, offset |-> 0, key_len_cell |-> 0,
               s |-> 0, mult_diff |-> 0, out |-> "none"]

----------------------------------------------------------------------------
(* helpers.rs: get_branch_len                                              *)

RLP_NUM == 2

BRANCH_0_S_START == 4

BRANCH_0_C_START == 7

\* The branch-init row of s_main: rlp1, rlp2 and bytes[0 ..].
BranchRows ==
    [ rlp1 : {0, 1}, rlp2 : {0, 1},
      bytes : { [j \in 0..7 |->
                   CASE j = 0 -> f1
                     [] j = 1 -> f2
                     [] j = BRANCH_0_S_START - RLP_NUM     -> b0
                     [] j = BRANCH_0_S_START - RLP_NUM + 1 -> b1
                     [] j = BRANCH_0_S_START - RLP_NUM + 2 -> b2
                     [] j = BRANCH_0_C_START - RLP_NUM     -> 250
                     [] j = BRANCH_0_C_START - RLP_NUM + 1 -> b2
                     [] j = BRANCH_0_C_START - RLP_NUM + 2 -> b1
                     [] OTHER -> 0]
                : f1 \in {0, 1}, f2 \in {0, 1}, b0 \in {197, 248, 249},
                  b1 \in {0, 1, 10, 255}, b2 \in {1, 44, 254} } ]

\* get_branch_len reading the S columns whatever is_s says.
get_branch_len_ignoring_is_s(s_main, is_s) ==
    LET one == F(1)
        s1 == s_main.rlp1
        s2 == s_main.rlp2
        rlp_byte0 == s_main.bytes[BRANCH_0_S_START - RLP_NUM]
        rlp_byte1 == s_main.bytes[BRANCH_0_S_START - RLP_NUM + 1]
        rlp_byte2 == s_main.bytes[BRANCH_0_S_START - RLP_NUM + 2]
    IN Add(Add(Mul(Mul(s1, s2), Add(Sub(rlp_byte0, F(192)), one)),
               Mul(Mul(s1, Sub(one, s2)), Add(rlp_byte1, F(2)))),
           Mul(Mul(Sub(one, s1), s2), Add(Add(Mul(rlp_byte1, F(256)), rlp_byte2), F(3))))

get_branch_len(s_main, is_s) ==
    LET one == F(1)
        c192 == F(192)
        s1 == IF ~is_s THEN s_main.bytes[0] ELSE s_main.rlp1
        s2 == IF ~is_s THEN s_main.bytes[1] ELSE s_main.rlp2
        one_rlp_byte == Mul(s1, s2)
        two_rlp_bytes == Mul(s1, Sub(one, s2))
        three_rlp_bytes == Mul(Sub(one, s1), s2)
        start == IF ~is_s THEN BRANCH_0_C_START ELSE BRANCH_0_S_START
        rlp_byte0 == s_main.bytes[start - RLP_NUM]
        rlp_byte1 == s_main.bytes[start - RLP_NUM + 1]
        rlp_byte2 == s_main.bytes[start - RLP_NUM + 2]
        c256 == F(256)
    IN Add(Add(Mul(one_rlp_byte, Add(Sub(rlp_byte0, c192), one)),
               Mul(two_rlp_bytes, Add(Add(rlp_byte1, one), one))),
           Mul(three_rlp_bytes,
               Add(Add(Add(Add(Mul(rlp_byte1, c256), rlp_byte2), one), one), one)))

BranchLenInit ==
    bl \in [ s_main : BranchRows, is_s : BOOLEAN, out : {-1} ]

GetBranchLen ==
    /\ bl.out = -1
    /\ bl' = [bl EXCEPT !.out = get_branch_len(bl.s_main, bl.is_s)]

BranchLenIdle == [s_main |-> [rlp1 |-> 0, rlp2 |-> 0, bytes |-> [j \in 0..7 |-> 0]],
                  is_s |-> TRUE, out |-> -1]

----------------------------------------------------------------------------
(* helpers.rs: get_bool_constraint                                         *)

\* The small values an argument is given; the values P - 1 - n just below the
\* modulus are given as well.
MaxExpr == 20

ExprValues == (0..MaxExpr) \cup { P - 1 - n : n \in 0..MaxExpr }

EnableValues == {0, 1, 2, P - 1}

\* q_enable * expr * (one + expr): the sign of the last factor slipped.
get_bool_constraint_plus(q_enable, expr) ==
    LET one == F(1)
    IN Mul(Mul(q_enable, expr), Add(one, expr))

\* q_enable * expr.clone() * (one - expr)
get_bool_constraint(q_enable, expr) ==
    LET one == F(1)
    IN Mul(Mul(q_enable, expr), Sub(one, expr))

BoolConstraintInit ==
    \E q_enable \in EnableValues, expr \in ExprValues :
        gb = [pc |-> "call", q_enable |-> q_enable, expr |-> expr, out |-> 0]

GetBoolConstraint ==
    /\ gb.pc = "call"
    /\ gb' = [gb EXCEPT !.pc = "returned",
                        !.out = get_bool_constraint(gb.q_enable, gb.expr)]

BoolConstraintIdle == [pc |-> "idle", q_enable |-> 0, expr |-> 0, out |-> 0]

----------------------------------------------------------------------------
(* RLP items as the gadget's sub-gadgets decode them (RLPItemView,         *)
(* ListKeyGadget).  An item is the sequence of its bytes, prefix included; *)
(* variant 0 is the long extension node (is_s), variant 1 the short one.   *)

Variants == {0, 1}

\* The RLP class of a string item, read off its first byte.
ItemIsShort(bytes) == bytes[1] < 128

ItemIsLong(bytes) == bytes[1] \in 128..183

ItemIsVeryLong(bytes) == bytes[1] \in 184..191

\* The number of prefix bytes of an item.
ItemNumRlpBytes(bytes) ==
    CASE bytes[1] < 128        -> 0
      [] bytes[1] \in 128..183 -> 1
      [] bytes[1] \in 184..191 -> 2
      [] bytes[1] \in 192..247 -> 1
      [] bytes[1] = 248        -> 2
      [] OTHER                 -> 3

\* The length the prefix of an item declares for its payload.
ItemLen(bytes) ==
    CASE bytes[1] < 128        -> 1
      [] bytes[1] \in 128..183 -> bytes[1] - 128
      [] bytes[1] \in 184..191 -> bytes[2]
      [] bytes[1] \in 192..247 -> bytes[1] - 192
      [] bytes[1] = 248        -> bytes[2]
      [] OTHER                 -> bytes[2] * 256 + bytes[3]

\* num_bytes(): prefix and payload.
ItemNumBytes(bytes) == ItemNumRlpBytes(bytes) + ItemLen(bytes)

\* The powers of keccak_r a node RLC takes (a node is shorter than 2 * HASH_WIDTH).
keccak_r_powers == [n \in 0..(2 * HASH_WIDTH) |-> Pow(keccak_r, n)]

RECURSIVE RlcSlice(_, _, _)
\* The sum of bytes[j] * keccak_r^(hi - j) over lo < j <= hi (halved, to keep the
\* evaluation shallow).
RlcSlice(bytes, lo, hi) ==
    IF hi <= lo THEN 0
    ELSE IF hi = lo + 1 THEN F(bytes[hi])
    ELSE LET mid == (lo + hi) \div 2
         IN Add(Mul(RlcSlice(bytes, lo, mid), keccak_r_powers[hi - mid]),
                RlcSlice(bytes, mid, hi))

\* The RLC of bytes with the first byte at the highest power of keccak_r,
\* continuing acc.
RlcRev(bytes, acc) ==
    Add(Mul(acc, keccak_r_powers[Len(bytes)]), RlcSlice(bytes, 0, Len(bytes)))

\* rlp_key.rlc2(keccak_r).rlc_chain_rev(rlp_value.rlc_chain_data()): the RLC of the
\* list header and the key item, chained with the value item's bytes.
NodeRlcOf(list_rlp_bytes, key_item, value_item) ==
    RlcRev(value_item, RlcRev(key_item, RlcRev(list_rlp_bytes, 0)))

----------------------------------------------------------------------------
(* The external tables.                                                    *)

\* The digest the keccak table holds for the preimage with this RLC and length:
\* two limbs, an injective function of (rlc, length).
HashLo(rlc, len) == Add(Add(Mul(rlc, 3), Mul(F(len), 5)), 1)

HashHi(rlc, len) == Add(Add(Mul(rlc, 7), Mul(F(len), 11)), 2)

\* (enable, rlc, byte_length, hash_lo, hash_hi) is a row of the keccak table.
KeccakTable(en, rlc, len, lo, hi) ==
    \/ en = 0 /\ rlc = 0 /\ len = 0 /\ lo = 0 /\ hi = 0
    \/ en = 1 /\ lo = HashLo(rlc, len) /\ hi = HashHi(rlc, len)

----------------------------------------------------------------------------
(* The key path.  KeyData carries the RLC of the nibbles consumed so far,  *)
(* the multiplier of the byte being filled and the parity of the count.    *)

RECURSIVE KeyFold(_, _)
\* The accumulator after the nibbles nibs: an even position adds nibble * 16 * mult,
\* an odd one adds nibble * mult and moves mult on by r.
KeyFold(st, nibs) ==
    IF nibs = <<>> THEN st
    ELSE KeyFold(IF st.is_odd = 0
                 THEN [rlc |-> Add(st.rlc, Mul(Mul(F(nibs[1]), 16), st.mult)),
                       mult |-> st.mult, is_odd |-> 1]
                 ELSE [rlc |-> Add(st.rlc, Mul(F(nibs[1]), st.mult)),
                       mult |-> Mul(st.mult, key_r), is_odd |-> 0],
                 Tail(nibs))

\* The payload of a key item (the compact-encoded nibbles).
KeyPayload(key_item) ==
    SubSeq(key_item, ItemNumRlpBytes(key_item) + 1, Len(key_item))

RECURSIVE ByteNibbles(_, _)
\* The nibbles of the bytes of a key, the second nibble of each taken from the
\* nibbles row.
ByteNibbles(bytes, seconds) ==
    IF bytes = <<>> THEN <<>>
    ELSE <<(bytes[1] - seconds[1]) \div 16, seconds[1]>>
         \o ByteNibbles(Tail(bytes), Tail(seconds))

\* The nibbles the key item holds, given the parity cell: the low nibble of the
\* first byte when odd, then two nibbles per byte.
KeyNibblesOf(key_item, key_nibbles, is_key_part_odd) ==
    LET kb == KeyPayload(key_item)
        kn == SubSeq(key_nibbles, ItemNumRlpBytes(key_item) + 1, Len(key_nibbles))
    IN (IF is_key_part_odd = 1 THEN <<kb[1] - 16>> ELSE <<>>)
       \o ByteNibbles(Tail(kb), Tail(kn))

\* ext_key_rlc_expr: what the nibbles of the key item add to the key RLC, entered
\* with multiplier key_mult_prev and parity is_key_odd.
ext_key_rlc_expr(key_item, key_nibbles, key_mult_prev, is_key_part_odd, is_key_odd) ==
    KeyFold([rlc |-> 0, mult |-> key_mult_prev, is_odd |-> is_key_odd],
            KeyNibblesOf(key_item, key_nibbles, is_key_part_odd)).rlc

----------------------------------------------------------------------------
(* mod_extension.rs: ModExtensionGadget::configure.  Every definition is   *)
(* the value, on the current witness, of the expression of the same name.  *)

parent_data == wit.parent_data

key_data == wit.key_data

is_insert == parent_data[0].is_placeholder

\* is_insert * a + (1 - is_insert) * b
Blend(a, b) == Add(Mul(is_insert, a), Mul(Sub(1, is_insert), b))

lo_s == Blend(parent_data[0].hash_lo, parent_data[1].hash_lo)

hi_s == Blend(parent_data[0].hash_hi, parent_data[1].hash_hi)

lo_c == Blend(parent_data[0].drifted_lo, parent_data[1].drifted_lo)

hi_c == Blend(parent_data[0].drifted_hi, parent_data[1].drifted_hi)

parent_data_lo(v) == IF v = 0 THEN lo_s ELSE lo_c

parent_data_hi(v) == IF v = 0 THEN hi_s ELSE hi_c

parent_data_rlc == Blend(parent_data[0].rlc, parent_data[1].rlc)

key_rlc_before == Blend(key_data[0].rlc, key_data[1].rlc)

key_mult_before == Blend(key_data[0].mult, key_data[1].mult)

key_is_odd_before == Blend(key_data[0].is_odd, key_data[1].is_odd)

middle_key_rlc == Blend(key_data[1].drifted_rlc, key_data[0].drifted_rlc)

middle_key_mult == Blend(key_data[1].mult, key_data[0].mult)

middle_key_is_odd == Blend(key_data[1].is_odd, key_data[0].is_odd)

node_rlc(v) == NodeRlcOf(wit.list_rlp_bytes[v], wit.key_items[v], wit.rlp_value[v])

\* rlp_key[v].rlp_list.len(), .rlp_list.num_bytes(), .key_value.num_bytes() and
\* rlp_value[v].num_bytes().
rlp_list_len(v) == ItemLen(wit.list_rlp_bytes[v])

rlp_list_num_bytes(v) == ItemNumBytes(wit.list_rlp_bytes[v])

key_value_num_bytes(v) == ItemNumBytes(wit.key_items[v])

rlp_value_num_bytes(v) == ItemNumBytes(wit.rlp_value[v])

\* The difference taken of the long node with itself: the edit never counts as a
\* split.
is_short_not_branch_of_long_only == Sub(node_rlc(0), node_rlc(0))

is_short_not_branch == Sub(node_rlc(0), node_rlc(1))

\* matchx! on the key item's RLP class: the byte after the prefix (bytes_be is
\* indexed from 0, the sequences here from 1).
first_byte(v) ==
    LET bytes_be == wit.key_items[v]
    IN CASE ItemIsShort(bytes_be)    -> bytes_be[1]
         [] ItemIsLong(bytes_be)     -> bytes_be[2]
         [] ItemIsVeryLong(bytes_be) -> bytes_be[3]
         [] OTHER                    -> 0

\* require!((ExtOddKey, first_byte, is_key_part_odd) => @FIXED)
ParityLookup(v) == FixedTable3("ExtOddKey", first_byte(v), cells.is_key_part_odd[v])

\* require!(rlp_list.len() => key_value.num_bytes() + rlp_value.num_bytes())
LenConsistent(v) ==
    F(rlp_list_len(v)) = Add(F(key_value_num_bytes(v)), F(rlp_value_num_bytes(v)))

\* The range of an LtGadget over 2 bytes.
LtRange == 256 * 256

\* LtGadget<F, 2>: lt is boolean, diff is two bytes, lhs - rhs = diff - lt * range.
LtGadgetHolds(lt, diff, lhs, rhs) ==
    /\ lt \in {0, 1}
    /\ diff \in 0..(LtRange - 1)
    /\ Sub(lhs, rhs) = Sub(diff, Mul(lt, LtRange))

\* LtGadget::construct(rlp_list.num_bytes(), HASH_WIDTH) with the side counted wrongly
\* as the list's declared length.
IsNotHashedGadgetOnLen(v) ==
    LtGadgetHolds(cells.lt[v], cells.diff[v], F(rlp_list_len(v)), F(HASH_WIDTH))

\* config.is_not_hashed[v] = LtGadget::construct(rlp_list.num_bytes(), HASH_WIDTH)
IsNotHashedGadget(v) ==
    LtGadgetHolds(cells.lt[v], cells.diff[v], F(rlp_list_num_bytes(v)), F(HASH_WIDTH))

is_not_hashed(v) == cells.lt[v]

or_expr(a, b) == Sub(1, Mul(Sub(1, a), Sub(1, b)))

not_expr(a) == Sub(1, a)

\* parent_data[is_s.idx()].is_root, as the anchoring of variant v reads it.
parent_is_root(v) == parent_data[v].is_root

\* ifx!{or(parent_data[v].is_root, not!(is_not_hashed)) => keccak row
\*      elsex => rlc == parent_data_rlc}, all under the condition cond.  A lookup
\* under a condition is required when the condition is not zero.
AnchorNode(cond, v) ==
    LET rlc == node_rlc(v)
        num_bytes == F(rlp_list_num_bytes(v))
        is_hashed == or_expr(parent_is_root(v), not_expr(is_not_hashed(v)))
    IN /\ Mul(cond, is_hashed) # 0 =>
              KeccakTable(1, rlc, num_bytes, parent_data_lo(v), parent_data_hi(v))
       /\ Mul(Mul(cond, not_expr(is_hashed)), Sub(rlc, parent_data_rlc)) = 0

\* The anchoring without the elsex branch of the long variant.
AnchoringOnlyWhenSplit(v) == AnchorNode(is_short_not_branch, v)

\* The anchoring with the elsex branch taken for both variants.
AnchoringElseBoth(v) ==
    /\ AnchorNode(is_short_not_branch, v)
    /\ AnchorNode(not_expr(is_short_not_branch), v)

\* ifx!{is_short_not_branch => anchor} elsex {if is_s {anchor} else {TODO}}
Anchoring(v) ==
    /\ AnchorNode(is_short_not_branch, v)
    /\ v = 0 => AnchorNode(not_expr(is_short_not_branch), v)

nibbles_rlc_long ==
    Add(key_rlc_before,
        ext_key_rlc_expr(wit.key_items[0], wit.key_nibbles[0], key_mult_before,
                         cells.is_key_part_odd[0], key_is_odd_before))

rlc_after_short ==
    Add(middle_key_rlc,
        ext_key_rlc_expr(wit.key_items[1], wit.key_nibbles[1], middle_key_mult,
                         cells.is_key_part_odd[1], middle_key_is_odd))

\* The gadget without its last requirement.
ContinuityTodo == TRUE

\* ifx!{is_short_not_branch => require!(rlc_after_short => nibbles_rlc_long)}
Continuity ==
    Mul(is_short_not_branch, Sub(rlc_after_short, nibbles_rlc_long)) = 0

\* The `for is_s in [true, false]` body without the length requirement on the
\* short variant.
VariantConstraintsLenOnlyLong(v) ==
    /\ ParityLookup(v)
    /\ v = 0 => LenConsistent(v)
    /\ IsNotHashedGadget(v)
    /\ Anchoring(v)

\* Everything the body of `for is_s in [true, false]` requires of variant v.
VariantConstraints(v) ==
    /\ ParityLookup(v)
    /\ LenConsistent(v)
    /\ IsNotHashedGadget(v)
    /\ Anchoring(v)

\* The witness satisfies every constraint configure registers.
Satisfied ==
    /\ \A v \in Variants : VariantConstraints(v)
    /\ Continuity

----------------------------------------------------------------------------
(* The witnesses the gadget is run on: the rows an insertion or deletion   *)
(* that splits an extension node produces, and those rows with one value   *)
(* changed (a prover is free to fill the rows as it likes).                *)

RECURSIVE PairUp(_)
PairUp(nibs) ==
    IF nibs = <<>> THEN <<>> ELSE <<nibs[1] * 16 + nibs[2]>> \o PairUp(Tail(Tail(nibs)))

\* The compact (hex-prefix) encoding of the nibbles of an extension key.
HexToCompact(nibs) ==
    IF Len(nibs) % 2 = 1 THEN <<16 + nibs[1]>> \o PairUp(Tail(nibs))
    ELSE <<0>> \o PairUp(nibs)

\* The RLP encoding of a byte string shorter than 56 bytes.
RlpString(payload) ==
    IF Len(payload) = 1 /\ payload[1] < 128 THEN payload
    ELSE <<128 + Len(payload)>> \o payload

\* The header of an RLP list with n bytes of content.
RlpListHeader(n) == IF n < 56 THEN <<192 + n>> ELSE <<248, n>>

\* The row of second nibbles of a key item.
SecondNibbles(key_item) == [j \in 1..Len(key_item) |-> key_item[j] % 16]

\* The value item: the hash of the branch below, or a branch of n bytes held inline.
ValueItems ==
    { <<160>> \o [j \in 1..HASH_WIDTH |-> 17],
      <<192 + 17>> \o [j \in 1..17 |-> 128],
      <<192 + 26>> \o [j \in 1..26 |-> 128] }

LongKeys == { <<1, 2, 3, 4>>, <<1, 2, 3>>, <<1, 2>> }

Faults == { "none", "short_nibble", "bad_prefix", "degenerate", "long_len", "short_len",
            "hash_lo", "hash_hi", "drifted_lo", "drifted_hi", "parent_rlc",
            "key_rlc", "key_mult", "key_odd", "mid_rlc", "mid_mult", "mid_odd",
            "degenerate_hash_lo", "degenerate_parent_rlc", "degenerate_drifted_lo" }

\* The faults under which the short node is a copy of the long one.
Degenerate ==
    { "degenerate", "degenerate_hash_lo", "degenerate_parent_rlc", "degenerate_drifted_lo" }

\* The key accumulator at the root, and after one nibble.
KeyStart == [rlc |-> 0, mult |-> 1, is_odd |-> 0]

KeysBefore == { KeyStart, KeyFold(KeyStart, <<5>>) }

\* The rows of one split.  The slot `b` holds the data of the side before the edit
\* (the placeholder side): slot 0 for an insertion, slot 1 for a deletion.
Witness(ins, long_nibs, value, roots, before, fault) ==
    LET b == IF ins THEN 0 ELSE 1
        short_honest == Tail(long_nibs)
        short_nibs ==
            CASE fault = "short_nibble" ->
                    [short_honest EXCEPT ![Len(short_honest)] = 9]
              [] fault \in Degenerate -> long_nibs
              [] OTHER -> short_honest
        long_key == RlpString(HexToCompact(long_nibs))
        short_payload == HexToCompact(short_nibs)
        short_key ==
            RlpString(IF fault = "bad_prefix"
                      THEN [short_payload EXCEPT ![1] = short_payload[1] + 32]
                      ELSE short_payload)
        keys == [v \in Variants |-> IF v = 0 THEN long_key ELSE short_key]
        hdr0 == [v \in Variants |-> RlpListHeader(ItemNumBytes(keys[v]) + ItemNumBytes(value))]
        hdr == [v \in Variants |->
                  IF (v = 0 /\ fault = "long_len") \/ (v = 1 /\ fault = "short_len")
                  THEN [hdr0[v] EXCEPT ![1] = hdr0[v][1] + 1] ELSE hdr0[v]]
        rlc == [v \in Variants |-> NodeRlcOf(hdr[v], keys[v], value)]
        nb == [v \in Variants |-> ItemNumBytes(hdr[v])]
        inline == IF roots[1] = 0 /\ nb[1] < HASH_WIDTH THEN rlc[1] ELSE rlc[0]
        bump(name, x) ==
            IF fault = name
               \/ (name = "hash_lo" /\ fault = "degenerate_hash_lo")
               \/ (name = "parent_rlc" /\ fault = "degenerate_parent_rlc")
               \/ (name = "drifted_lo" /\ fault = "degenerate_drifted_lo")
            THEN Add(x, 1) ELSE x
        mid == KeyFold(before, <<long_nibs[1]>>)
        pd == [s \in Variants |->
                 IF s = b
                 THEN [is_placeholder |-> 1,
                       hash_lo |-> bump("hash_lo", HashLo(rlc[0], nb[0])),
                       hash_hi |-> bump("hash_hi", HashHi(rlc[0], nb[0])),
                       drifted_lo |-> bump("drifted_lo", HashLo(rlc[1], nb[1])),
                       drifted_hi |-> bump("drifted_hi", HashHi(rlc[1], nb[1])),
                       rlc |-> bump("parent_rlc", inline),
                       is_root |-> roots[s]]
                 ELSE [is_placeholder |-> 0, hash_lo |-> 101, hash_hi |-> 102,
                       drifted_lo |-> 103, drifted_hi |-> 104, rlc |-> 105,
                       is_root |-> roots[s]]]
        kd == [s \in Variants |->
                 IF s = b
                 THEN [rlc |-> bump("key_rlc", before.rlc),
                       mult |-> IF fault = "key_mult" THEN Mul(before.mult, key_r)
                                ELSE before.mult,
                       is_odd |-> IF fault = "key_odd" THEN 1 - before.is_odd
                                  ELSE before.is_odd,
                       drifted_rlc |-> 106]
                 ELSE [rlc |-> 107,
                       mult |-> IF fault = "mid_mult" THEN Mul(mid.mult, key_r) ELSE mid.mult,
                       is_odd |-> IF fault = "mid_odd" THEN 1 - mid.is_odd ELSE mid.is_odd,
                       drifted_rlc |-> bump("mid_rlc", mid.rlc)]]
    IN [ key_items |-> keys,
         key_nibbles |-> [v \in Variants |-> SecondNibbles(keys[v])],
         rlp_value |-> [v \in Variants |-> value],
         list_rlp_bytes |-> hdr,
         parent_data |-> pd,
         key_data |-> kd ]

\* No edit has been applied to the witness yet.
NoEdit == [satisfied |-> FALSE, is_insert |-> 0]

Unassigned == [ is_key_part_odd |-> [v \in Variants |-> 0],
                lt |-> [v \in Variants |-> 0],
                diff |-> [v \in Variants |-> 0] ]

ExtInit ==
    /\ \E ins \in BOOLEAN, long_nibs \in LongKeys, value \in ValueItems,
          roots \in [Variants -> {0, 1}], before \in KeysBefore, fault \in Faults :
          wit = Witness(ins, long_nibs, value, roots, before, fault)
    /\ cells = Unassigned
    /\ pc = "init"
    /\ op = "init"
    /\ pre = NoEdit

----------------------------------------------------------------------------
(* mod_extension.rs: ModExtensionGadget::assign                            *)

\* key_items[v].bytes[rlp_key[v].key_item.num_rlp_bytes()]
first_key_byte(v) == wit.key_items[v][ItemNumRlpBytes(wit.key_items[v]) + 1]

\* first_key_byte >> 4 == 1
KeyPartOdd(v) == first_key_byte(v) \div 16 = 1

\* The loop body with the assert! of the odd branch only.
AssertsHoldOddOnly(v) == KeyPartOdd(v) => first_key_byte(v) < 32

\* The two assert! of the loop body hold for variant v.
AssertsHold(v) ==
    IF KeyPartOdd(v) THEN first_key_byte(v) < 32 ELSE first_key_byte(v) = 0

\* LtGadget::assign(lhs, rhs): (lt, diff).
LtAssign(lhs, rhs) ==
    [lt |-> IF lhs < rhs THEN 1 ELSE 0,
     diff |-> F(lhs - rhs + (IF lhs < rhs THEN LtRange ELSE 0))]

\* The cells after the loop body has run for the variants in done.
AssignedCells(done) ==
    [ is_key_part_odd |-> [v \in Variants |->
          IF v \in done THEN (IF KeyPartOdd(v) THEN 1 ELSE 0) ELSE cells.is_key_part_odd[v]],
      lt |-> [v \in Variants |->
          IF v \in done THEN LtAssign(rlp_list_num_bytes(v), HASH_WIDTH).lt ELSE cells.lt[v]],
      diff |-> [v \in Variants |->
          IF v \in done THEN LtAssign(rlp_list_num_bytes(v), HASH_WIDTH).diff
          ELSE cells.diff[v]] ]

\* assign: the loop runs for the long variant, then the short one; a failed
\* assert! panics before the cells of that variant are assigned.
Assign ==
    /\ pc = "init"
    /\ IF ~AssertsHold(0)
       THEN cells' = cells /\ pc' = "aborted"
       ELSE IF ~AssertsHold(1)
       THEN cells' = AssignedCells({0}) /\ pc' = "aborted"
       ELSE cells' = AssignedCells({0, 1}) /\ pc' = "assigned"
    /\ op' = "assign"
    /\ UNCHANGED <<wit, pre>>

\* The thresholds a prover may fill the comparator's cells for.
Thresholds == {HASH_WIDTH - 1, HASH_WIDTH, HASH_WIDTH + 1}

\* The cells are advice: a prover may fill them with other values than assign's.
\* Here the cells of one variant get either the other parity bit, or the
\* comparator's cells for the outcome lt against the threshold thr.
ProverAssign ==
    /\ pc = "init"
    /\ LET honest == AssignedCells({0, 1})
       IN \E v \in Variants :
            \/ cells' = [honest EXCEPT !.is_key_part_odd[v] = 1 - honest.is_key_part_odd[v]]
            \/ \E lt \in {0, 1}, thr \in Thresholds :
                  cells' = [honest EXCEPT
                              !.lt[v] = lt,
                              !.diff[v] = F(rlp_list_num_bytes(v) - thr + lt * LtRange)]
    /\ pc' = "forged"
    /\ op' = "prover"
    /\ UNCHANGED <<wit, pre>>

----------------------------------------------------------------------------
(* The two edits of a satisfying witness the gadget is tested with.        *)

\* The nibbles a key nibble is changed to.
MutNibbles == {1, 7}

\* One nibble of the short variant's key is changed; everything else is left.
MutateShortNibble ==
    /\ pc = "assigned"
    /\ op = "assign"
    /\ LET nibs == KeyNibblesOf(wit.key_items[1], wit.key_nibbles[1],
                                cells.is_key_part_odd[1])
       IN \E i \in 1..Len(nibs), n \in MutNibbles :
            /\ nibs[i] # n
            /\ LET key == RlpString(HexToCompact([nibs EXCEPT ![i] = n]))
               IN wit' = [wit EXCEPT !.key_items[1] = key,
                                     !.key_nibbles[1] = SecondNibbles(key)]
    /\ op' = "mutate"
    /\ pre' = [satisfied |-> Satisfied, is_insert |-> is_insert]
    /\ UNCHANGED <<cells, pc>>

\* The two KeyData slots and the two ParentData slots are exchanged, which turns
\* an insertion (is_insert = 1) into a deletion (is_insert = 0) and back.
SwapDirection ==
    /\ pc = "assigned"
    /\ op = "assign"
    /\ wit' = [wit EXCEPT !.parent_data = [s \in Variants |-> wit.parent_data[1 - s]],
                          !.key_data = [s \in Variants |-> wit.key_data[1 - s]]]
    /\ op' = "swap"
    /\ pre' = [satisfied |-> Satisfied, is_insert |-> is_insert]
    /\ UNCHANGED <<cells, pc>>

HelpersIdle ==
    cr = ComputeRlcIdle /\ lk = LookupIdle /\ bl = BranchLenIdle /\ gb = BoolConstraintIdle

Init == ExtInit /\ HelpersIdle

Next ==
    \/ Assign /\ UNCHANGED <<cr, lk, bl, gb>>
    \/ ProverAssign /\ UNCHANGED <<cr, lk, bl, gb>>
    \/ MutateShortNibble /\ UNCHANGED <<cr, lk, bl, gb>>
    \/ SwapDirection /\ UNCHANGED <<cr, lk, bl, gb>>

Spec == Init /\ [][Next]_vars

----------------------------------------------------------------------------
(* Specifications of the helpers.                                          *)

ExtIdle == /\ wit = <<>> /\ cells = <<>> /\ pc = "idle" /\ op = "idle" /\ pre = NoEdit

InitRlc ==
    ComputeRlcInit /\ lk = LookupIdle /\ bl = BranchLenIdle /\ gb = BoolConstraintIdle /\ ExtIdle

NextRlc ==
    \/ ComputeRlcEnter /\ UNCHANGED <<lk, bl, gb, wit, cells, pc, op, pre>>
    \/ ComputeRlcIter /\ UNCHANGED <<lk, bl, gb, wit, cells, pc, op, pre>>
    \/ ComputeRlcReturn /\ UNCHANGED <<lk, bl, gb, wit, cells, pc, op, pre>>

SpecRlc == InitRlc /\ [][NextRlc]_vars

InitLookup ==
    LookupInit /\ cr = ComputeRlcIdle /\ bl = BranchLenIdle /\ gb = BoolConstraintIdle /\ ExtIdle

NextLookup ==
    \/ KeyLenLookup /\ UNCHANGED <<cr, bl, gb, wit, cells, pc, op, pre>>
    \/ MultDiffLookup /\ UNCHANGED <<cr, bl, gb, wit, cells, pc, op, pre>>

SpecLookup == InitLookup /\ [][NextLookup]_vars

InitLen ==
    BranchLenInit /\ cr = ComputeRlcIdle /\ lk = LookupIdle /\ gb = BoolConstraintIdle /\ ExtIdle

NextLen == GetBranchLen /\ UNCHANGED <<cr, lk, gb, wit, cells, pc, op, pre>>

SpecLen == InitLen /\ [][NextLen]_vars

InitBool ==
    BoolConstraintInit /\ cr = ComputeRlcIdle /\ lk = LookupIdle /\ bl = BranchLenIdle /\ ExtIdle

NextBool == GetBoolConstraint /\ UNCHANGED <<cr, lk, bl, wit, cells, pc, op, pre>>

SpecBool == InitBool /\ [][NextBool]_vars

\* assign run on rows whose key items start with any byte: the rows of a split
\* with the first key byte of one variant replaced (a key item of a single byte
\* stays a single byte, so below 128).
AssignInit ==
    /\ \E long_nibs \in LongKeys, value \in ValueItems, v \in Variants, b \in 0..255 :
          LET w == Witness(TRUE, long_nibs, value, [s \in Variants |-> 0], KeyStart, "none")
              item == w.key_items[v]
              key == [item EXCEPT ![ItemNumRlpBytes(item) + 1] = b]
          IN /\ ItemNumRlpBytes(item) = 0 => b < 128
             /\ wit = [w EXCEPT !.key_items[v] = key, !.key_nibbles[v] = SecondNibbles(key)]
    /\ cells = Unassigned
    /\ pc = "init"
    /\ op = "init"
    /\ pre = NoEdit

InitAssign == AssignInit /\ HelpersIdle

NextAssign == Assign /\ UNCHANGED <<cr, lk, bl, gb>>

SpecAssign == InitAssign /\ [][NextAssign]_vars

----------------------------------------------------------------------------
(* Properties of the helpers.                                              *)

RECURSIVE ClosedSum(_, _, _, _, _)
\* Sum of advices[i + 1] * r^(start + i) * mult over lo <= i < hi.
ClosedSum(advices, lo, hi, start, mult) ==
    IF hi <= lo THEN 0
    ELSE IF hi = lo + 1 THEN Mul(Mul(advices[lo + 1], Pow(key_r, start + lo)), mult)
    ELSE LET mid == (lo + hi) \div 2
         IN Add(ClosedSum(advices, lo, mid, start, mult),
                ClosedSum(advices, mid, hi, start, mult))

\* Sum over the first n advices of advices[i] * r^(start + i) * mult, i from 0.
ClosedForm(advices, n, start, mult) == ClosedSum(advices, 0, n, start, mult)

\* C4: with power_of_randomness = r^0 .. r^(W-1), compute_rlc returns the closed
\* form sum of advices[i] * r^(rind + i) * mult for every input length, the
\* lengths W+1, 2W and 2W+1 beyond the window included.
C4_ClosedFormAnyLength ==
    (cr.pc = "done" /\ cr.first = 0)
        => cr.rlc = ClosedForm(cr.advices, Len(cr.advices), cr.rind0, cr.mult)

\* The number of key bytes the length cell declares.
LkKeyLen == lk.key_len_cell - lk.offset

\* C8: with q_enable = 1 a cell past the end of the key (ind > key_len - offset)
\* passes key_len_lookup iff it is 0, a cell inside the key passes whatever
\* byte it holds; with q_enable = 0 every cell passes.
C8_KeyLenLookupPadding ==
    (lk.fn = "key_len" /\ lk.out # "none") =>
        /\ (lk.q_enable = 1 /\ lk.ind > LkKeyLen) => (lk.out = "sat" <=> lk.s = 0)
        /\ (lk.q_enable = 1 /\ lk.ind <= LkKeyLen) => lk.out = "sat"
        /\ lk.q_enable = 0 => lk.out = "sat"

\* key_len = 5, offset = 0, ind = 7: the padding byte 3 is rejected and, in
\* another run, a byte 255 inside a key of MaxKeyLen bytes is accepted.
C8_Witness ==
    /\ lk.fn = "key_len" /\ lk.q_enable = 1 /\ LkKeyLen = 5 /\ lk.offset = 0
    /\ lk.ind = 7 /\ lk.s = 3 /\ lk.out = "unsat"

\* C9: with q_enable = 1 and key_len - offset + addition an exponent of the table,
\* mult_diff_lookup is satisfied iff mult_diff = r^(key_len - offset + addition).
C9_MultDiffIsPower ==
    (lk.fn = "mult_diff" /\ lk.out # "none" /\ lk.q_enable = 1
        /\ LkKeyLen + lk.ind \in 0..(RMultRows - 1))
    => (lk.out = "sat" <=> lk.mult_diff = Pow(key_r, LkKeyLen + lk.ind))

\* key_len - offset = 5 with offset = 128 and addition = 2: r^7 is accepted.
C9_Witness ==
    /\ lk.fn = "mult_diff" /\ lk.q_enable = 1 /\ lk.offset = 128 /\ LkKeyLen = 5
    /\ lk.ind = 2 /\ lk.mult_diff = Pow(key_r, 7) /\ lk.out = "sat"

\* The flag cells and header bytes get_branch_len reads for the side is_s.
BlFlag1 == IF bl.is_s THEN bl.s_main.rlp1 ELSE bl.s_main.bytes[0]

BlFlag2 == IF bl.is_s THEN bl.s_main.rlp2 ELSE bl.s_main.bytes[1]

BlByte(j) ==
    bl.s_main.bytes[(IF bl.is_s THEN BRANCH_0_S_START ELSE BRANCH_0_C_START) - RLP_NUM + j]

\* The part of C10 that names the three forms' lengths.
BlForms ==
    /\ (BlFlag1 = 1 /\ BlFlag2 = 1) => bl.out = BlByte(0) - 192 + 1
    /\ (BlFlag1 = 1 /\ BlFlag2 = 0) => bl.out = BlByte(1) + 2
    /\ (BlFlag1 = 0 /\ BlFlag2 = 1) => bl.out = BlByte(1) * 256 + BlByte(2) + 3
    /\ (BlFlag1 = 1 /\ BlFlag2 = 1 /\ BlByte(0) = 197) => bl.out = 6
    /\ (BlFlag1 = 0 /\ BlFlag2 = 1 /\ BlByte(1) = 1 /\ BlByte(2) = 44) => bl.out = 303

\* C10 as stated: the three forms' lengths, and the flags rlp1 = 0, rlp2 = 1 with
\* byte1 = 10 are the two-byte form and give 13.
C10_AsStated ==
    bl.out # -1 =>
        /\ BlForms
        /\ (BlFlag1 = 0 /\ BlFlag2 = 1 /\ BlByte(1) = 10) => bl.out = 13

\* C10 amended: get_branch_len returns header_byte - 192 + 1 for the flags (1, 1),
\* byte1 + 2 for (1, 0) and byte1 * 256 + byte2 + 3 for (0, 1); [0xC5] gives 6,
\* the two-byte form (1, 0) with byte1 = 10 gives 12, byte1 = 1, byte2 = 44 in the
\* three-byte form gives 303.
C10_BranchLenForms ==
    bl.out # -1 =>
        /\ BlForms
        /\ (BlFlag1 = 1 /\ BlFlag2 = 0 /\ BlByte(1) = 10) => bl.out = 12

\* The two-byte form, byte1 = 10, has returned 12.
C10_Witness ==
    /\ bl.is_s /\ BlFlag1 = 1 /\ BlFlag2 = 0 /\ BlByte(1) = 10 /\ bl.out = 12

\* An argument small enough for the product to be taken in the integers.
GbSmall(x) == x <= MaxExpr

\* C12: get_bool_constraint returns q_enable * expr * (1 - expr); with q_enable = 1
\* the value is 0 iff expr is 0 or 1, with q_enable = 0 it is 0 for every expr.
C12_BoolConstraint ==
    gb.pc = "returned" =>
        /\ (GbSmall(gb.q_enable) /\ GbSmall(gb.expr))
               => gb.out = F(gb.q_enable * gb.expr * (1 - gb.expr))
        /\ gb.q_enable = 1 => (gb.out = 0 <=> gb.expr \in {0, 1})
        /\ gb.q_enable = 0 => gb.out = 0

\* get_bool_constraint(1, 2) has returned -2, which is not zero.
C12_Witness ==
    gb.pc = "returned" /\ gb.q_enable = 1 /\ gb.expr = 2 /\ gb.out = P - 2

----------------------------------------------------------------------------
(* Properties of ModExtensionGadget.                                       *)

\* The gadget has been given cells (by assign or by a prover).
Filled == pc \in {"assigned", "forged"}

\* The two nodes differ: the edit is a split, the short node is no plain branch.
IsSplit == node_rlc(0) # node_rlc(1)

\* The path RLC of C1: the key RLC entering the long (short) extension plus what the
\* nibbles of its key add.
LongPathRlc ==
    Add(Blend(key_data[0].rlc, key_data[1].rlc),
        KeyFold([rlc |-> 0, mult |-> Blend(key_data[0].mult, key_data[1].mult),
                 is_odd |-> Blend(key_data[0].is_odd, key_data[1].is_odd)],
                KeyNibblesOf(wit.key_items[0], wit.key_nibbles[0],
                             cells.is_key_part_odd[0])).rlc)

ShortPathRlc ==
    Add(Blend(key_data[1].drifted_rlc, key_data[0].drifted_rlc),
        KeyFold([rlc |-> 0, mult |-> Blend(key_data[1].mult, key_data[0].mult),
                 is_odd |-> Blend(key_data[1].is_odd, key_data[0].is_odd)],
                KeyNibblesOf(wit.key_items[1], wit.key_nibbles[1],
                             cells.is_key_part_odd[1])).rlc)

\* C1: every witness that satisfies the constraints and whose two node RLCs differ
\* has long_path_rlc = short_path_rlc.
C1_Continuity ==
    (Filled /\ Satisfied /\ IsSplit) => LongPathRlc = ShortPathRlc

\* A satisfying split of the 4-nibble key, entered at an odd depth.
C1_Witness ==
    /\ pc = "assigned" /\ Satisfied /\ IsSplit
    /\ Len(wit.key_items[0]) = 4 /\ key_is_odd_before = 1
    /\ LongPathRlc = ShortPathRlc

\* The anchoring C2 asks of variant v.
AnchoredAsClaimed(v) ==
    IF parent_data[v].is_root = 1 \/ is_not_hashed(v) = 0
    THEN KeccakTable(1, node_rlc(v), rlp_list_num_bytes(v),
                     parent_data_lo(v), parent_data_hi(v))
    ELSE node_rlc(v) = parent_data_rlc

\* C2: in a satisfying witness the long variant, and the short variant when the
\* node RLCs differ, has its keccak row if its parent is root or it is hashed,
\* and equals the parent's inline RLC otherwise.
C2_Anchoring ==
    (Filled /\ Satisfied) =>
        /\ AnchoredAsClaimed(0)
        /\ IsSplit => AnchoredAsClaimed(1)

\* A satisfying split with the long node hashed and the short node inline.
C2_Witness ==
    /\ pc = "assigned" /\ Satisfied /\ IsSplit
    /\ is_not_hashed(0) = 0 /\ is_not_hashed(1) = 1 /\ parent_data[1].is_root = 0
    /\ node_rlc(1) = parent_data_rlc

C5_DeletionSymmetry ==
    (op = "swap" /\ pre.satisfied) => (Satisfied /\ is_insert = 1 - pre.is_insert)

\* C6: every satisfying witness has, for both variants, declared list length =
\* key item bytes + value item bytes, whatever is_insert and the node RLCs are.
C6_ListLength ==
    (Filled /\ Satisfied) =>
        \A v \in Variants :
            rlp_list_len(v) = key_value_num_bytes(v) + rlp_value_num_bytes(v)

\* A satisfying deletion whose short node is a copy of the long one.
C6_Witness ==
    /\ pc = "assigned" /\ Satisfied /\ is_insert = 0 /\ ~IsSplit
    /\ rlp_list_len(1) = key_value_num_bytes(1) + rlp_value_num_bytes(1)

\* C7: cells that satisfy the comparator have is_not_hashed = 1 exactly for a node
\* of fewer than 32 bytes, and the cells assign computes satisfy the comparator.
C7_HashThreshold ==
    \A v \in Variants :
        /\ (Filled /\ IsNotHashedGadget(v))
               => (is_not_hashed(v) = 1 <=> rlp_list_num_bytes(v) < 32)
        /\ pc = "assigned"
               => /\ IsNotHashedGadget(v)
                  /\ is_not_hashed(v) = LtAssign(rlp_list_num_bytes(v), HASH_WIDTH).lt

\* A long node of 32 bytes (hashed) with a short node of 31 bytes (not hashed).
C7_Witness ==
    /\ pc = "assigned" /\ rlp_list_num_bytes(0) = 32 /\ rlp_list_num_bytes(1) = 31
    /\ is_not_hashed(0) = 0 /\ is_not_hashed(1) = 1
    /\ IsNotHashedGadget(0) /\ IsNotHashedGadget(1)

----------------------------------------------------------------------------
(* Properties of ModExtensionGadget::assign.                               *)

\* The even marker 0x00 and the odd markers 0x10..0x1F.
IsEvenMarker(b) == b = 0

IsOddMarker(b) == b \in 16..31

\* C11: assign aborts exactly when the first key byte of some variant is neither
\* the even marker nor an odd marker; when it returns Ok, is_key_part_odd of each
\* variant is 1 iff the high nibble of that byte is 1, and the classifier lookup of
\* configure accepts the pair (first byte, is_key_part_odd).
C11_ParityDerivation ==
    op = "assign" =>
        /\ pc = "aborted" <=>
               \E v \in Variants :
                   ~IsEvenMarker(first_key_byte(v)) /\ ~IsOddMarker(first_key_byte(v))
        /\ pc = "assigned" =>
               \A v \in Variants :
                   /\ cells.is_key_part_odd[v] = 1 <=> IsOddMarker(first_key_byte(v))
                   /\ ParityLookup(v)

\* assign returned Ok on an even long key and a one-byte odd short key.
C11_Witness ==
    /\ op = "assign" /\ pc = "assigned"
    /\ first_key_byte(0) = 0 /\ cells.is_key_part_odd[0] = 0
    /\ wit.key_items[1] = <<18>> /\ cells.is_key_part_odd[1] = 1
    /\ ParityLookup(0) /\ ParityLookup(1)

----------------------------------------------------------------------------
(* Properties of the direction blending.                                   *)

\* The slot of the side before the edit: 0 for an insertion, 1 for a deletion.
BeforeSlot == IF is_insert = 1 THEN 0 ELSE 1

\* The blended quantities are those of the slot the direction selects.
BlendsSelectSlot ==
    /\ lo_s = parent_data[BeforeSlot].hash_lo
    /\ hi_s = parent_data[BeforeSlot].hash_hi
    /\ lo_c = parent_data[BeforeSlot].drifted_lo
    /\ hi_c = parent_data[BeforeSlot].drifted_hi
    /\ parent_data_rlc = parent_data[BeforeSlot].rlc
    /\ key_rlc_before = key_data[BeforeSlot].rlc
    /\ key_mult_before = key_data[BeforeSlot].mult
    /\ key_is_odd_before = key_data[BeforeSlot].is_odd
    /\ middle_key_rlc = key_data[1 - BeforeSlot].drifted_rlc

\* C13: every before quantity the constraints use is slot 0's for an insertion
\* and slot 1's for a deletion, the middle key rlc is the other slot's drifted_rlc,
\* and nothing the constraints read of ParentData (the is_root of the anchoring
\* included) comes from a slot fixed whatever the direction.
C13_DirectionBlending ==
    Filled =>
        /\ BlendsSelectSlot
        /\ \A v \in Variants : parent_is_root(v) = parent_data[BeforeSlot].is_root

----------------------------------------------------------------------------
(* Properties of the degenerate case.                                      *)

\* What is required of the rows whatever the node RLCs are.
WellFormed ==
    \A v \in Variants : ParityLookup(v) /\ LenConsistent(v) /\ IsNotHashedGadget(v)

\* The short variant's parent hash is the hash of the short node.
ShortSideHashHonest ==
    KeccakTable(1, node_rlc(1), rlp_list_num_bytes(1), parent_data_lo(1), parent_data_hi(1))

\* C14: when the two node RLCs are equal, the rows satisfy the constraints iff they
\* are well-formed and the long variant is anchored (keccak row if its parent is
\* root or it is hashed, the parent's inline RLC otherwise): nothing is required
\* of the short variant's parent hash or of the two path RLCs.
C14_DegenerateCase ==
    (Filled /\ ~IsSplit) => (Satisfied <=> (WellFormed /\ AnchoredAsClaimed(0)))

\* Satisfying rows with equal node RLCs, a hashed short node whose parent hash is
\* not the node's hash, and two different path RLCs.
C14_Witness ==
    /\ pc = "assigned" /\ ~IsSplit /\ Satisfied
    /\ is_not_hashed(1) = 0 /\ ~ShortSideHashHonest
    /\ LongPathRlc # ShortPathRlc
    /\ AnchoredAsClaimed(0)

====
